---- MODULE Spec2Model ----
(***************************************************************************)
(* Failover traversal of gemini_rotate.GeminiRotationClient: construction  *)
(* from the environment (utils.py), and the two forms of the traversal,    *)
(* generate_content (suspending) and generate_content_sync (blocking),     *)
(* over model groups x clients (client.py).                                *)
(*                                                                         *)
(* The external transport (google.genai) is the environment of the model:  *)
(* each transport call either returns a response or raises an exception of *)
(* some class.  When `stubbed` holds the transport is a deterministic stub *)
(* whose answer depends on the (model, api key) of the call only; its      *)
(* answer for a cell is fixed the first time the cell is called and kept   *)
(* in `stub`.  Otherwise every call is answered independently.             *)
(*                                                                         *)
(* Spec is the controller with its callers.  SpecFair is one caller whose  *)
(* transport calls all come back.  SpecFormat runs _format_error on error  *)
(* strings put together from well-formed and malformed parts, SpecEnviron  *)
(* the constructor in each environment; `probe` holds the string or the    *)
(* environment they run on.                                                *)
(***************************************************************************)
EXTENDS Integers, Sequences, FiniteSets, TLC

\* ---- bounds ------------------------------------------------------------
MaxModels == 3       \* longest list given in GEMINI_MODELS
MaxKeyIndex == 2     \* highest i for which GEMINI_API_KEY_<i> may be set

\* ---- values ------------------------------------------------------------
None == "<None>"                      \* Python None / unset variable
ModelIds == {"A", "B", "C", ""}       \* identifiers a GEMINI_MODELS list holds
KeyVals == {"k1", "k2"}               \* credential strings
Truthy(v) == v # None /\ v # ""       \* Python truth value of a str-or-None

Range(s) == {s[i] : i \in DOMAIN s}
Min(a, b) == IF a < b THEN a ELSE b

\* every list of length <= n over S
SeqsUpTo(S, n) == UNION {[1..k -> S] : k \in 0..n}

\* The traversal never looks inside a non-empty identifier, so the lists are
\* taken up to renaming of A, B, C: the non-empty identifiers of a list make
\* their first appearances in the order of IdOrder.
IdOrder == <<"A", "B", "C">>
Canonical(r) ==
    \A i \in DOMAIN r : \A j \in DOMAIN IdOrder :
        r[i] = IdOrder[j] => \A h \in 1..(j - 1) : \E i0 \in 1..(i - 1) : r[i0] = IdOrder[h]
Rosters == {r \in SeqsUpTo(ModelIds, MaxModels) : Canonical(r)}

\* ---- utils.py ----------------------------------------------------------
\* The process environment as far as the library reads it.
KeyEnvVals == KeyVals \cup {None, ""}
ModelsEnvVals ==
    {[tag |-> t, items |-> <<>>] : t \in {"unset", "empty", "invalid", "nonlist"}}
    \cup {[tag |-> "list", items |-> r] : r \in Rosters}
Envs ==
    [GEMINI_API_KEY : KeyEnvVals,
     GEMINI_API_KEY_ : [1..MaxKeyIndex -> KeyEnvVals],
     GEMINI_MODELS : ModelsEnvVals]

\* os.getenv(f"GEMINI_API_KEY_{i}")
getenv_key(env, i) == IF i \in DOMAIN env.GEMINI_API_KEY_ THEN env.GEMINI_API_KEY_[i] ELSE None

\* the while loop of get_gemini_api_keys: stops at the first unset or empty
\* GEMINI_API_KEY_<i>
RECURSIVE numbered_keys(_, _)
numbered_keys(env, i) ==
    IF Truthy(getenv_key(env, i))
    THEN <<getenv_key(env, i)>> \o numbered_keys(env, i + 1)
    ELSE <<>>

\* keys, before the duplicates are removed
keys(env) ==
    (IF Truthy(env.GEMINI_API_KEY) THEN <<env.GEMINI_API_KEY>> ELSE <<>>)
    \o numbered_keys(env, 1)

\* list(set(...)): the distinct keys, in an order the set's hashing decides;
\* the set of lists the call can return
get_gemini_api_keys(env) ==
    LET unique == {k \in Range(keys(env)) : Truthy(k)}
    IN {s \in [1..Cardinality(unique) -> unique] : Range(s) = unique}

default_models ==
    <<"gemini-flash-latest", "gemini-flash-lite-latest", "gemini-3-flash-preview",
      "gemini-2.5-flash", "gemini-2.5-flash-lite", "gemini-2.0-flash",
      "gemini-2.0-flash-lite">>

\* GEMINI_MODELS, parsed: a JSON list is returned as it is, anything else
\* (unset, empty, not JSON, JSON but not a list) gives the default list
get_gemini_models(env) ==
    IF env.GEMINI_MODELS.tag = "list" THEN env.GEMINI_MODELS.items ELSE default_models

\* ---- exceptions --------------------------------------------------------
RecognizedErrors == {"ClientError", "ServerError"}   \* except (ClientError, ServerError)
OtherErrors == {"APIError", "ValueError"}            \* classes the transport may raise besides
TransportResults == {"ok"} \cup RecognizedErrors \cup OtherErrors

\* (mutant) if self.api_keys is None:
no_api_keys_is_none(ks) == Len(ks) < 0
\* if not self.api_keys:
no_api_keys(ks) == Len(ks) = 0

\* raise ValueError("No Gemini API keys found in environment variables.")
ConfigurationError == [kind |-> "raise", class |-> "ValueError"]
NoException == [kind |-> "none", class |-> "none"]

\* raise AllClientsFailed(f"All {len(self.clients)} agents failed across all
\* {len(self.models)} models."): the two numbers of the message
\* (mutant) the two numbers of the message change places
AllClientsFailed_swapped(cs, ms) ==
    [kind |-> "raise", class |-> "AllClientsFailed",
     client_count |-> Len(ms), model_count |-> Len(cs)]
AllClientsFailed(cs, ms) ==
    [kind |-> "raise", class |-> "AllClientsFailed",
     client_count |-> Len(cs), model_count |-> Len(ms)]
AllClientsFailed_sync(cs, ms) ==
    [kind |-> "raise", class |-> "AllClientsFailed",
     client_count |-> Len(cs), model_count |-> Len(ms)]

\* ---- client.py: _format_error ---------------------------------------------
\* A string is a sequence of pieces of text.  The pieces of the head of an
\* error string are single characters; the pieces of its payload are the
\* tokens of a Python expression (quoted strings, numbers, names and the
\* punctuation of a dict display) and blanks.
Digits == {"4", "2", "9"}                  \* \d
Blanks == {" "}                            \* \s
Upper == {"R", "E", "_"}                   \* [A-Z_]
Dot == "."
StrToks == {"'error'", "'message'", "'code'", "'quota'"}
NumToks == {"429"}
NameToks == {"null"}
\* the text of a quoted string
Unquote(tok) ==
    CASE tok = "'error'" -> "error"
      [] tok = "'message'" -> "message"
      [] tok = "'code'" -> "code"
      [] tok = "'quota'" -> "quota"

\* Python values: str, int, dict (its items in insertion order), a name that
\* is no literal, and None
StrV(text) == [type |-> "str", text |-> text, items |-> <<>>]
IntV(text) == [type |-> "int", text |-> text, items |-> <<>>]
NameV(text) == [type |-> "name", text |-> text, items |-> <<>>]
DictV(items) == [type |-> "dict", text |-> "", items |-> items]
NoneV == [type |-> "NoneType", text |-> "None", items |-> <<>>]

\* d[k] = v on the items of a dict
SetItem(items, k, v) ==
    IF \E i \in DOMAIN items : items[i].key = k
    THEN [i \in DOMAIN items |-> IF items[i].key = k THEN [key |-> k, val |-> v]
                                 ELSE items[i]]
    ELSE Append(items, [key |-> k, val |-> v])
\* k in d
HasKey(d, k) == \E i \in DOMAIN d.items : d.items[i].key = k
\* d.get(k, default)
DictGet(d, k, default) ==
    IF HasKey(d, k)
    THEN d.items[CHOOSE i \in DOMAIN d.items : d.items[i].key = k].val
    ELSE default

\* the parser of ast.literal_eval on the tokens toks from position i: a parsed
\* value and the position after it, or a SyntaxError
Parsed(v, next) == [ok |-> TRUE, val |-> v, next |-> next]
NotParsed == [ok |-> FALSE, val |-> NoneV, next |-> 0]
RECURSIVE parse_value(_, _), parse_items(_, _, _)
parse_value(toks, i) ==
    IF i > Len(toks) THEN NotParsed
    ELSE IF toks[i] \in StrToks THEN Parsed(StrV(Unquote(toks[i])), i + 1)
    ELSE IF toks[i] \in NumToks THEN Parsed(IntV(toks[i]), i + 1)
    ELSE IF toks[i] \in NameToks THEN Parsed(NameV(toks[i]), i + 1)
    ELSE IF toks[i] = "{"
    THEN (IF i + 1 <= Len(toks) /\ toks[i + 1] = "}" THEN Parsed(DictV(<<>>), i + 2)
          ELSE parse_items(toks, i + 1, <<>>))
    ELSE NotParsed
\* key : value [, key : value]* [,] }
parse_items(toks, i, items) ==
    LET k == parse_value(toks, i) IN
    IF ~k.ok \/ k.next > Len(toks) \/ toks[k.next] # ":" THEN NotParsed
    ELSE LET v == parse_value(toks, k.next + 1) IN
         IF ~v.ok \/ v.next > Len(toks) THEN NotParsed
         ELSE LET more == SetItem(items, k.val, v.val) IN
              IF toks[v.next] = "}" THEN Parsed(DictV(more), v.next + 1)
              ELSE IF toks[v.next] # "," THEN NotParsed
              ELSE IF v.next + 1 <= Len(toks) /\ toks[v.next + 1] = "}"
              THEN Parsed(DictV(more), v.next + 2)
              ELSE parse_items(toks, v.next + 1, more)

\* the value holds a name: literal_eval raises ValueError (malformed node)
RECURSIVE HasName(_)
HasName(v) ==
    \/ v.type = "name"
    \/ \E i \in DOMAIN v.items : HasName(v.items[i].key) \/ HasName(v.items[i].val)

Returned(v) == [kind |-> "return", class |-> "none", val |-> v]
Raised(class) == [kind |-> "raise", class |-> class, val |-> NoneV]

\* ast.literal_eval(details_str)
literal_eval(text) ==
    LET toks == SelectSeq(text, LAMBDA p : p \notin Blanks)
        r == parse_value(toks, 1)
    IN
    IF ~r.ok \/ r.next <= Len(toks) THEN Raised("SyntaxError")
    ELSE IF HasName(r.val) THEN Raised("ValueError")
    ELSE Returned(r.val)

\* repr(v) and str(v), as pieces
RECURSIVE repr(_), repr_items(_)
repr(v) ==
    IF v.type = "str" THEN <<"'" \o v.text \o "'">>
    ELSE IF v.type = "dict" THEN <<"{">> \o repr_items(v.items) \o <<"}">>
    ELSE <<v.text>>
repr_items(items) ==
    IF items = <<>> THEN <<>>
    ELSE repr(items[1].key) \o <<":", " ">> \o repr(items[1].val)
         \o (IF Len(items) > 1 THEN <<",", " ">> ELSE <<>>) \o repr_items(Tail(items))
str(v) == IF v.type = "str" THEN <<v.text>> ELSE repr(v)

\* the last position of the longest run of pieces of S that starts at i
\* (i - 1 if there is none)
RECURSIVE RunEnd(_, _, _)
RunEnd(s, i, S) ==
    IF i <= Len(s) /\ s[i] \in S THEN RunEnd(s, i + 1, S) ELSE i - 1

\* re.search(r"^(\d+)\s+([A-Z_]+)\.\s+(.*)$", s, re.DOTALL) and match.groups()
re_search(s) ==
    LET d == RunEnd(s, 1, Digits)
        g1 == RunEnd(s, d + 1, Blanks)
        u == RunEnd(s, g1 + 1, Upper)
        g2 == RunEnd(s, u + 2, Blanks)
    IN
    IF /\ d >= 1 /\ g1 > d /\ u > g1
       /\ u + 1 <= Len(s) /\ s[u + 1] = Dot
       /\ g2 > u + 1
    THEN [match |-> TRUE, code |-> SubSeq(s, 1, d), status |-> SubSeq(s, g1 + 1, u),
          details_str |-> SubSeq(s, g2 + 1, Len(s))]
    ELSE [match |-> FALSE, code |-> <<>>, status |-> <<>>, details_str |-> <<>>]

Return_str(text) == [kind |-> "return", class |-> "none", text |-> text]
Raise_str(class) == [kind |-> "raise", class |-> class, text |-> <<>>]
FallThrough == [kind |-> "pass", class |-> "none", text |-> <<>>]

\* (mutant) details["error"].get("message")
error_message_no_default(error) ==
    IF error.type # "dict" THEN Raised("AttributeError")
    ELSE Returned(DictGet(error, StrV("message"), NoneV))
\* details["error"].get("message", "Unknown error"); only a dict has a get
error_message(error) ==
    IF error.type # "dict" THEN Raised("AttributeError")
    ELSE Returned(DictGet(error, StrV("message"), StrV("Unknown error")))

\* the body of the try statement
try_body(code, status, details_str) ==
    LET details == literal_eval(details_str) IN
    IF details.kind = "raise" THEN Raise_str(details.class)
    ELSE IF details.val.type = "dict" /\ HasKey(details.val, StrV("error"))
    THEN LET message == error_message(DictGet(details.val, StrV("error"), NoneV)) IN
         IF message.kind = "raise" THEN Raise_str(message.class)
         ELSE Return_str(code \o <<" ">> \o status \o <<".", " ">> \o str(message.val))
    ELSE FallThrough

\* (mutant) except (ValueError, SyntaxError): pass
format_error_narrow_except(s) ==
    LET m == re_search(s)
        r == try_body(m.code, m.status, m.details_str)
    IN
    IF m.match /\ r.kind = "return" THEN r
    ELSE IF m.match /\ r.kind = "raise" /\ r.class \notin {"ValueError", "SyntaxError"} THEN r
    ELSE Return_str(s)

\* _format_error(e), s = str(e)
format_error(s) ==
    LET m == re_search(s)
        r == try_body(m.code, m.status, m.details_str)
    IN
    IF m.match /\ r.kind = "return" THEN r
    ELSE Return_str(s)     \* except: pass, then return s

\* ---- error strings --------------------------------------------------------
\* the parts error strings are put together from, well-formed and not
Codes == {<<>>, <<"4">>, <<"4", "2", "9">>}
Gaps == {<<>>, <<" ">>, <<" ", " ">>}
Statuses == {<<>>, <<"R">>, <<"R", "_", "E">>, <<"R", "e">>}
Dots == {<<>>, <<Dot>>}
Payload(shape, message, text) == [shape |-> shape, message |-> message, text |-> text]
Payloads == {
    Payload("message", <<"quota">>,
            <<"{", "'error'", ":", "{", "'message'", ":", "'quota'", "}", "}">>),
    Payload("message", <<"quota">>,
            <<"{", "'error'", ":", " ", "{", "'code'", ":", " ", "429", ",", " ",
              "'message'", ":", " ", "'quota'", "}", "}",  " ">>),
    Payload("message", <<"429">>,
            <<"{", "'code'", ":", "429", ",", "'error'", ":", "{", "'message'", ":", "429", "}", "}">>),
    Payload("message", <<"{", "'code'", ":", " ", "429", "}">>,
            <<"{", "'error'", ":", "{", "'message'", ":", "{", "'code'", ":", "429", "}", "}", "}">>),
    Payload("no_message", <<>>,
            <<"{", "'error'", ":", "{", "'code'", ":", "429", "}", "}">>),
    Payload("no_message", <<>>, <<"{", "'error'", ":", "{", "}", "}">>),
    Payload("error_not_dict", <<>>, <<"{", "'error'", ":", "'quota'", "}">>),
    Payload("error_not_dict", <<>>, <<"{", "'error'", ":", "429", "}">>),
    Payload("no_error", <<>>, <<"{", "'message'", ":", "'quota'", "}">>),
    Payload("no_error", <<>>, <<"{", "}">>),
    Payload("not_dict", <<>>, <<"'error'">>),
    Payload("not_dict", <<>>, <<"429">>),
    Payload("unparsable", <<>>, <<>>),
    Payload("unparsable", <<>>, <<"q", "u", "o", "t", "a">>),
    Payload("unparsable", <<>>,
            <<"{", "'error'", ":", "{", "'message'", ":", "null", "}", "}">>),
    Payload("unparsable", <<>>,
            <<"{", "'error'", ":", "{", "'message'", ":", "'quota'", "}">>),
    Payload("unparsable", <<>>,
            <<"{", "'error'", ":", "{", "'message'", "'quota'", "}", "}">>),
    Payload("unparsable", <<>>,
            <<"{", "'error'", ":", "{", "'message'", ":", "'quota'", "}", "}", "'quota'">>)}

NotCalled == [kind |-> "none", class |-> "none", text |-> <<>>]
\* an error string, with the parts it was put together from
FormatProbes ==
    {[fn |-> "_format_error", code |-> c, gap1 |-> g1, status |-> st, dot |-> d,
      gap2 |-> g2, payload |-> p, s |-> c \o g1 \o st \o d \o g2 \o p.text,
      result |-> NotCalled] :
        c \in Codes, g1 \in Gaps, st \in Statuses, d \in Dots, g2 \in Gaps, p \in Payloads}
NoProbe == [fn |-> "none"]

VARIABLES
    constructed,   \* "no": not yet, "ok": __init__ returned, "failed": it raised
    init_exc,      \* what __init__ raised, NoException if nothing
    api_keys,      \* self.api_keys
    clients,       \* self.clients
    models,        \* self.models
    calls,         \* per caller task, its current (or last) generate call
    stubbed,       \* the transport is a deterministic stub
    stub,          \* the stub's answers fixed so far: (model, api key) -> result
    probe          \* what a specification of a single function is run on:
                   \* an error string or an environment; NoProbe in Spec

vars == <<constructed, init_exc, api_keys, clients, models, calls, stubbed, stub, probe>>

\* ---- the transport (google.genai, external) ------------------------------
\* the (model, api key) cell a transport call addresses
Cell(a) == <<a.model, a.api_key>>

\* what the transport hands back on success
Response(a) == [model |-> a.model, api_key |-> a.api_key, contents |-> a.contents,
                config |-> a.config]

\* The transports tried raise ServerError only to the calls the first client
\* makes for the first model group (elsewhere their recognized error is
\* ClientError); a stub repeats such an answer wherever the cell comes again.
ServerWindow(a) == a.group_idx = 1 /\ a.client_idx = 1

\* the results the transport can give to the call a
Answers(a) ==
    IF stubbed /\ Cell(a) \in DOMAIN stub THEN {stub[Cell(a)]}
    ELSE IF ServerWindow(a) THEN TransportResults
    ELSE TransportResults \ {"ServerError"}

Answered(a, r) == IF stubbed THEN (Cell(a) :> r) @@ stub ELSE stub

\* str(e) of the recognized errors the transports tried raise: a ClientError
\* whose payload has an error.message, and a ServerError whose 'error' entry is
\* a string, on which the extraction of the message fails
error_str(r) ==
    IF r = "ClientError"
    THEN <<"4", "2", "9", " ", "R", "E", ".", " ",
           "{", "'error'", ":", " ", "{", "'message'", ":", " ", "'quota'", "}", "}">>
    ELSE <<"4", " ", "E", "_", "R", ".", " ", "{", "'error'", ":", " ", "'quota'", "}">>

\* logger.warning(f"... failed: {_format_error(e)}"): the message logged, or
\* what the formatting raised
formatted == [r \in RecognizedErrors |-> format_error(error_str(r))]
warning(r) == formatted[r]

\* ---- client.py: outcomes of a call -------------------------------------
Running == [kind |-> "running"]
Return(response) == [kind |-> "return", response |-> response]
Propagate(class) == [kind |-> "raise", class |-> class]
LastAttempt(c) == c.attempts[Len(c.attempts)]
\* the outstanding transport call of c has come back with r
Completed(c, r) == [c EXCEPT !.attempts[Len(c.attempts)].result = r]

\* ---- client.py: generate_content (suspending form) ---------------------
\* (mutant) range(0, len(self.models)): a group starts at every model
model_groups_overlapping(ms) ==
    [g \in 1..Len(ms) |-> SubSeq(ms, g, Min(g + 1, Len(ms)))]

\* [self.models[i : i + 2] for i in range(0, len(self.models), 2)]
model_groups(ms) ==
    [g \in 1..((Len(ms) + 1) \div 2) |-> SubSeq(ms, 2 * g - 1, Min(2 * g, Len(ms)))]

primary_model(group) == group[1]
secondary_model(group) == IF Len(group) > 1 THEN group[2] ELSE None

\* await client.aio.models.generate_content(model=m, contents=contents,
\* config=config) with client number k of group g, slot s: the call c is
\* suspended on it
aio_generate_content(c, g, k, s, m) ==
    [c EXCEPT !.pc = s, !.group_idx = g, !.client_idx = k,
              !.attempts = Append(@, [model |-> m, client_idx |-> k,
                                      api_key |-> clients[k].api_key,
                                      group_idx |-> g, slot |-> s,
                                      contents |-> c.contents, config |-> c.config,
                                      result |-> "pending"])]

\* (mutant) a rotation cursor shared by all calls: the next client is the one
\* after the furthest client any call in progress has reached
next_client_shared_cursor(c) ==
    LET groups == model_groups(models)
        others == {calls[u].client_idx : u \in {v \in DOMAIN calls : calls[v].pc # "done"}}
        cursor == CHOOSE k \in others \cup {c.client_idx} :
                      \A j \in others \cup {c.client_idx} : j <= k
    IN
    IF cursor < Len(clients)
    THEN aio_generate_content(c, c.group_idx, cursor + 1, "primary",
                              primary_model(groups[c.group_idx]))
    ELSE IF c.group_idx < Len(groups) /\ Len(clients) > 0
    THEN aio_generate_content(c, c.group_idx + 1, 1, "primary",
                              primary_model(groups[c.group_idx + 1]))
    ELSE [c EXCEPT !.pc = "done", !.outcome = AllClientsFailed(clients, models)]

\* (mutant) the next group is entered at the client the last one ended with
next_client_keeps_client(c) ==
    LET groups == model_groups(models) IN
    IF c.client_idx < Len(clients)
    THEN aio_generate_content(c, c.group_idx, c.client_idx + 1, "primary",
                              primary_model(groups[c.group_idx]))
    ELSE IF c.group_idx < Len(groups) /\ Len(clients) > 0
    THEN aio_generate_content(c, c.group_idx + 1, c.client_idx, "primary",
                              primary_model(groups[c.group_idx + 1]))
    ELSE [c EXCEPT !.pc = "done", !.outcome = AllClientsFailed(clients, models)]

\* the two for loops: the client after client_idx in this group, else the
\* first client of the next group, else the raise after the loops
next_client(c) ==
    LET groups == model_groups(models) IN
    IF c.client_idx < Len(clients)
    THEN aio_generate_content(c, c.group_idx, c.client_idx + 1, "primary",
                              primary_model(groups[c.group_idx]))
    ELSE IF c.group_idx < Len(groups) /\ Len(clients) > 0
    THEN aio_generate_content(c, c.group_idx + 1, 1, "primary",
                              primary_model(groups[c.group_idx + 1]))
    ELSE [c EXCEPT !.pc = "done", !.outcome = AllClientsFailed(clients, models)]

\* (mutant) asyncio.gather of the first client's Primary and Secondary calls:
\* both are started before either is awaited
generate_content_enter_gathers(c) ==
    LET groups == model_groups(models) IN
    IF Len(groups) > 0 /\ Len(clients) > 0
    THEN IF Truthy(secondary_model(groups[1]))
         THEN aio_generate_content(
                  aio_generate_content(c, 1, 1, "primary", primary_model(groups[1])),
                  1, 1, "secondary", secondary_model(groups[1]))
         ELSE aio_generate_content(c, 1, 1, "primary", primary_model(groups[1]))
    ELSE [c EXCEPT !.pc = "done", !.outcome = AllClientsFailed(clients, models)]

\* (mutant) the controller remembers the client its last finished call ended
\* with and starts the next call there
generate_content_enter_resumes_rotation(c) ==
    LET groups == model_groups(models)
        finished == {t \in DOMAIN calls : calls[t].pc = "done" /\ calls[t].attempts # <<>>}
        start == IF finished = {} THEN 1
                 ELSE LastAttempt(calls[CHOOSE t \in finished : TRUE]).client_idx
    IN
    IF Len(groups) > 0 /\ Len(clients) > 0
    THEN aio_generate_content(c, 1, start, "primary", primary_model(groups[1]))
    ELSE [c EXCEPT !.pc = "done", !.outcome = AllClientsFailed(clients, models)]

\* (mutant) the first group is taken before the loop: IndexError on an empty
\* roster
generate_content_enter_indexes_first(c) ==
    LET groups == model_groups(models) IN
    IF Len(groups) = 0 THEN [c EXCEPT !.pc = "done", !.outcome = Propagate("IndexError")]
    ELSE IF Len(clients) > 0
    THEN aio_generate_content(c, 1, 1, "primary", primary_model(groups[1]))
    ELSE [c EXCEPT !.pc = "done", !.outcome = AllClientsFailed(clients, models)]

\* entry of the call up to its first transport call
generate_content_enter(c) ==
    LET groups == model_groups(models) IN
    IF Len(groups) > 0 /\ Len(clients) > 0
    THEN aio_generate_content(c, 1, 1, "primary", primary_model(groups[1]))
    ELSE [c EXCEPT !.pc = "done", !.outcome = AllClientsFailed(clients, models)]

\* (mutant) except Exception: every error of the Primary call is caught
primary_done_catches_all(c, r) ==
    LET group == model_groups(models)[c.group_idx] IN
    IF r = "ok" THEN [c EXCEPT !.pc = "done", !.outcome = Return(Response(LastAttempt(c)))]
    ELSE IF Truthy(secondary_model(group))
         THEN aio_generate_content(c, c.group_idx, c.client_idx, "secondary",
                                   secondary_model(group))
         ELSE next_client(c)

\* the Primary call of (group_idx, client_idx) came back with r
primary_done(c, r) ==
    LET group == model_groups(models)[c.group_idx] IN
    IF r = "ok" THEN [c EXCEPT !.pc = "done", !.outcome = Return(Response(LastAttempt(c)))]
    ELSE IF r \in RecognizedErrors
    THEN IF warning(r).kind = "raise"
         THEN [c EXCEPT !.pc = "done", !.outcome = Propagate(warning(r).class)]
         ELSE IF Truthy(secondary_model(group))
         THEN aio_generate_content(c, c.group_idx, c.client_idx, "secondary",
                                   secondary_model(group))
         ELSE next_client(c)
    ELSE [c EXCEPT !.pc = "done", !.outcome = Propagate(r)]

\* (mutant) the response of the Secondary call is dropped, the loop goes on
secondary_done_drops_response(c, r) ==
    IF r = "ok" \/ r \in RecognizedErrors THEN next_client(c)
    ELSE [c EXCEPT !.pc = "done", !.outcome = Propagate(r)]

\* (mutant) the Secondary call is made outside any try: its errors propagate
secondary_done_no_except(c, r) ==
    IF r = "ok" THEN [c EXCEPT !.pc = "done", !.outcome = Return(Response(LastAttempt(c)))]
    ELSE [c EXCEPT !.pc = "done", !.outcome = Propagate(r)]

\* the Secondary call of (group_idx, client_idx) came back with r
secondary_done(c, r) ==
    IF r = "ok" THEN [c EXCEPT !.pc = "done", !.outcome = Return(Response(LastAttempt(c)))]
    ELSE IF r \in RecognizedErrors
    THEN IF warning(r).kind = "raise"
         THEN [c EXCEPT !.pc = "done", !.outcome = Propagate(warning(r).class)]
         ELSE next_client(c)
    ELSE [c EXCEPT !.pc = "done", !.outcome = Propagate(r)]

\* ---- client.py: generate_content_sync (blocking form) ------------------
model_groups_sync(ms) ==
    [g \in 1..((Len(ms) + 1) \div 2) |-> SubSeq(ms, 2 * g - 1, Min(2 * g, Len(ms)))]

primary_model_sync(group) == group[1]
\* (mutant) the blocking form never has a Secondary
secondary_model_sync_none(group) == None
\* (mutant) a group of one model has its Primary again as its Secondary
secondary_model_sync_repeats_primary(group) == IF Len(group) > 1 THEN group[2] ELSE group[1]
secondary_model_sync(group) == IF Len(group) > 1 THEN group[2] ELSE None

\* client.models.generate_content(model=m, contents=contents, config=config):
\* the call c is blocked in it
models_generate_content(c, g, k, s, m) ==
    [c EXCEPT !.pc = s, !.group_idx = g, !.client_idx = k,
              !.attempts = Append(@, [model |-> m, client_idx |-> k,
                                      api_key |-> clients[k].api_key,
                                      group_idx |-> g, slot |-> s,
                                      contents |-> c.contents, config |-> c.config,
                                      result |-> "pending"])]

next_client_sync(c) ==
    LET groups == model_groups_sync(models) IN
    IF c.client_idx < Len(clients)
    THEN models_generate_content(c, c.group_idx, c.client_idx + 1, "primary",
                                 primary_model_sync(groups[c.group_idx]))
    ELSE IF c.group_idx < Len(groups) /\ Len(clients) > 0
    THEN models_generate_content(c, c.group_idx + 1, 1, "primary",
                                 primary_model_sync(groups[c.group_idx + 1]))
    ELSE [c EXCEPT !.pc = "done", !.outcome = AllClientsFailed_sync(clients, models)]

generate_content_sync_enter(c) ==
    LET groups == model_groups_sync(models) IN
    IF Len(groups) > 0 /\ Len(clients) > 0
    THEN models_generate_content(c, 1, 1, "primary", primary_model_sync(groups[1]))
    ELSE [c EXCEPT !.pc = "done", !.outcome = AllClientsFailed_sync(clients, models)]

primary_done_sync(c, r) ==
    LET group == model_groups_sync(models)[c.group_idx] IN
    IF r = "ok" THEN [c EXCEPT !.pc = "done", !.outcome = Return(Response(LastAttempt(c)))]
    ELSE IF r \in RecognizedErrors
    THEN IF warning(r).kind = "raise"
         THEN [c EXCEPT !.pc = "done", !.outcome = Propagate(warning(r).class)]
         ELSE IF Truthy(secondary_model_sync(group))
         THEN models_generate_content(c, c.group_idx, c.client_idx, "secondary",
                                      secondary_model_sync(group))
         ELSE next_client_sync(c)
    ELSE [c EXCEPT !.pc = "done", !.outcome = Propagate(r)]

secondary_done_sync(c, r) ==
    IF r = "ok" THEN [c EXCEPT !.pc = "done", !.outcome = Return(Response(LastAttempt(c)))]
    ELSE IF r \in RecognizedErrors
    THEN IF warning(r).kind = "raise"
         THEN [c EXCEPT !.pc = "done", !.outcome = Propagate(warning(r).class)]
         ELSE next_client_sync(c)
    ELSE [c EXCEPT !.pc = "done", !.outcome = Propagate(r)]

\* ---- the state machine -------------------------------------------------
Tasks == {"t1", "t2"}     \* the callers: tasks of an event loop, or threads
\* Against a stub the model follows two concurrent callers, against a
\* transport that answers every call independently it follows one.
Callers == IF stubbed THEN Tasks ELSE {"t1"}
Contents == {"Hi!"}       \* the payloads; the traversal hands them through
Configs == {"cfg"}

Idle == [form |-> "none", pc |-> "idle", group_idx |-> 0, client_idx |-> 0,
         attempts |-> <<>>, outcome |-> Running, contents |-> None, config |-> None]

NewCall(form, contents, config) ==
    [Idle EXCEPT !.form = form, !.pc = "enter", !.contents = contents, !.config = config]

Start ==
    /\ constructed = "no"
    /\ init_exc = NoException
    /\ api_keys = <<>>
    /\ clients = <<>>
    /\ models = <<>>
    /\ calls = [t \in Tasks |-> Idle]
    /\ stubbed \in BOOLEAN
    /\ stub = <<>>
Init == Start /\ probe = NoProbe

\* the environment of the process: the one under examination, or any
Environments == IF probe.fn = "environ" THEN {probe.env} ELSE Envs

\* GeminiRotationClient(): __init__ in the environment env
GeminiRotationClient ==
    /\ constructed = "no"
    /\ \E env \in Environments : \E ks \in get_gemini_api_keys(env) :
         IF no_api_keys(ks)
         THEN /\ constructed' = "failed"
              /\ init_exc' = ConfigurationError
              /\ api_keys' = ks
              /\ UNCHANGED <<clients, models>>
         ELSE /\ constructed' = "ok"
              /\ api_keys' = ks
              /\ clients' = [i \in 1..Len(ks) |-> [api_key |-> ks[i]]]
              /\ models' = get_gemini_models(env)
              /\ UNCHANGED init_exc
    /\ UNCHANGED <<calls, stubbed, stub, probe>>

\* task t: await client.generate_content(contents, config), up to the first
\* suspension of the call
generate_content(t) ==
    /\ constructed = "ok"
    /\ t \in Callers
    /\ calls[t].pc \in {"idle", "done"}
    /\ \E contents \in Contents, config \in Configs :
         calls' = [calls EXCEPT ![t] = generate_content_enter(NewCall("async", contents, config))]
    /\ UNCHANGED <<constructed, init_exc, api_keys, clients, models, stubbed, stub, probe>>

\* task t: client.generate_content_sync(contents, config), up to the first
\* transport call
generate_content_sync(t) ==
    /\ constructed = "ok"
    /\ t \in Callers
    /\ calls[t].pc \in {"idle", "done"}
    /\ \E contents \in Contents, config \in Configs :
         calls' = [calls EXCEPT ![t] = generate_content_sync_enter(NewCall("sync", contents, config))]
    /\ UNCHANGED <<constructed, init_exc, api_keys, clients, models, stubbed, stub, probe>>

\* the outstanding transport call of the suspended call of t completes and
\* the call runs on to its next transport call or to its end
generate_content_resume(t) ==
    /\ calls[t].form = "async"
    /\ calls[t].pc \in {"primary", "secondary"}
    /\ \E r \in Answers(LastAttempt(calls[t])) :
         /\ calls' = [calls EXCEPT ![t] =
                        IF @.pc = "primary" THEN primary_done(Completed(@, r), r)
                        ELSE secondary_done(Completed(@, r), r)]
         /\ stub' = Answered(LastAttempt(calls[t]), r)
    /\ UNCHANGED <<constructed, init_exc, api_keys, clients, models, stubbed, probe>>

\* the same for the blocked call of t
generate_content_sync_resume(t) ==
    /\ calls[t].form = "sync"
    /\ calls[t].pc \in {"primary", "secondary"}
    /\ \E r \in Answers(LastAttempt(calls[t])) :
         /\ calls' = [calls EXCEPT ![t] =
                        IF @.pc = "primary" THEN primary_done_sync(Completed(@, r), r)
                        ELSE secondary_done_sync(Completed(@, r), r)]
         /\ stub' = Answered(LastAttempt(calls[t]), r)
    /\ UNCHANGED <<constructed, init_exc, api_keys, clients, models, stubbed, probe>>

Next ==
    \/ GeminiRotationClient
    \/ \E t \in Tasks : generate_content(t)
    \/ \E t \in Tasks : generate_content_sync(t)
    \/ \E t \in Tasks : generate_content_resume(t)
    \/ \E t \in Tasks : generate_content_sync_resume(t)

Spec == Init /\ [][Next]_vars

\* ---- _format_error on its own ----------------------------------------------
\* _format_error(e) for an exception e whose str(e) is the string probe.s
format_error_call ==
    /\ probe.fn = "_format_error"
    /\ probe.result = NotCalled
    /\ probe' = [probe EXCEPT !.result = format_error(probe.s)]
    /\ UNCHANGED <<constructed, init_exc, api_keys, clients, models, calls, stubbed, stub>>

InitFormat == Start /\ ~stubbed /\ probe \in FormatProbes
NextFormat == format_error_call
SpecFormat == InitFormat /\ [][NextFormat]_vars

\* ---- construction in a given environment -----------------------------------
InitEnviron == Start /\ ~stubbed /\ probe \in {[fn |-> "environ", env |-> e] : e \in Envs}
NextEnviron == GeminiRotationClient
SpecEnviron == InitEnviron /\ [][NextEnviron]_vars

\* ---- properties --------------------------------------------------------
IsDone(c) == c.pc = "done"
Exhausted(c) == IsDone(c) /\ c.outcome.kind = "raise" /\ c.outcome.class = "AllClientsFailed"
IsPrefix(s, t) == Len(s) <= Len(t) /\ \A i \in DOMAIN s : s[i] = t[i]

\* the (model, client) pairs of the attempts of c, in order
AttemptCells(c) == [i \in DOMAIN c.attempts |-> <<c.attempts[i].model, c.attempts[i].client_idx>>]

\* the roster position an attempt is made for
Pos(a) == 2 * a.group_idx - (IF a.slot = "primary" THEN 1 ELSE 0)

\* The fixed order of a roster ms over K clients: pair after pair, within a
\* pair client after client, within a client Primary then Secondary.
FixedOrder(ms, K) ==
    LET full == (Len(ms) \div 2) * 2 * K IN
    [i \in 1..(Len(ms) * K) |->
        IF i <= full
        THEN <<ms[2 * ((i - 1) \div (2 * K)) + 1 + ((i - 1) % 2)],
               (((i - 1) % (2 * K)) \div 2) + 1>>
        ELSE <<ms[Len(ms)], i - full>>]

\* C1: the attempts of every generate call are a prefix of the fixed order
\* (pairs in roster order, clients in construction order within a pair,
\* Primary then Secondary within a client).
C1_AttemptsPrefixOfFixedOrder ==
    \A t \in Tasks : IsPrefix(AttemptCells(calls[t]), FixedOrder(models, Len(clients)))

\* C2: an attempt that returned a response is the last attempt of its call,
\* and the call has returned exactly that response.
C2_FirstSuccessEndsTraversal ==
    \A t \in Tasks : \A i \in DOMAIN calls[t].attempts :
        calls[t].attempts[i].result = "ok" =>
            /\ i = Len(calls[t].attempts)
            /\ IsDone(calls[t])
            /\ calls[t].outcome.kind = "return"
            /\ calls[t].outcome.response = Response(calls[t].attempts[i])

\* a call that returned the response of a Secondary attempt with cells of the
\* grid still untried
C2_Witness ==
    \E t \in Tasks :
        /\ IsDone(calls[t]) /\ calls[t].outcome.kind = "return"
        /\ Len(calls[t].attempts) >= 2
        /\ LastAttempt(calls[t]).slot = "secondary"
        /\ LastAttempt(calls[t]).result = "ok"
        /\ Len(calls[t].attempts) < Len(models) * Len(clients)

\* C3: an attempt that raised an error of a class other than ClientError and
\* ServerError is the last attempt of its call, and the call has raised that
\* same error (not AllClientsFailed).
C3_UnrecognizedErrorPropagates ==
    \A t \in Tasks : \A i \in DOMAIN calls[t].attempts :
        calls[t].attempts[i].result \in OtherErrors =>
            /\ i = Len(calls[t].attempts)
            /\ IsDone(calls[t])
            /\ calls[t].outcome.kind = "raise"
            /\ calls[t].outcome.class = calls[t].attempts[i].result

\* a call ended by an unrecognized error of a later attempt, a Secondary one,
\* with cells of the grid still untried
C3_Witness ==
    \E t \in Tasks :
        /\ IsDone(calls[t])
        /\ Len(calls[t].attempts) >= 3
        /\ LastAttempt(calls[t]).slot = "secondary"
        /\ LastAttempt(calls[t]).result \in OtherErrors
        /\ Len(calls[t].attempts) < Len(models) * Len(clients)

\* C4: a finished call all of whose attempts failed with a recognized error has
\* raised AllClientsFailed carrying the number of clients and the number of
\* models of the roster.
C4_ExhaustionRaisesAggregateFailure ==
    \A t \in Tasks :
        (IsDone(calls[t]) /\ \A i \in DOMAIN calls[t].attempts :
                                calls[t].attempts[i].result \in RecognizedErrors)
        => /\ Exhausted(calls[t])
           /\ calls[t].outcome.client_count = Len(clients)
           /\ calls[t].outcome.model_count = Len(models)

\* both forms exhausted over a roster of 3 models and 2 clients
C4_Witness ==
    /\ Len(models) = 3 /\ Len(clients) = 2
    /\ \E t \in Tasks : Exhausted(calls[t]) /\ calls[t].form = "async"
                        /\ Len(calls[t].attempts) = 6
    /\ \E t \in Tasks : Exhausted(calls[t]) /\ calls[t].form = "sync"

\* C5: AllClientsFailed is raised only after exactly len(models) * len(clients)
\* attempts, one for every model of the roster with every client, each of
\* which ended in a recognized error.
C5_AggregateFailureOnlyAfterEveryCell ==
    \A t \in Tasks : Exhausted(calls[t]) =>
        /\ Len(calls[t].attempts) = Len(models) * Len(clients)
        /\ \A i \in DOMAIN calls[t].attempts :
               calls[t].attempts[i].result \in RecognizedErrors
        /\ \A p \in DOMAIN models : \A k \in DOMAIN clients :
               \E i \in DOMAIN calls[t].attempts :
                   /\ Pos(calls[t].attempts[i]) = p
                   /\ calls[t].attempts[i].model = models[p]
                   /\ calls[t].attempts[i].client_idx = k

\* C6: a finished call has returned a response, raised AllClientsFailed or
\* raised the unrecognized error of its last attempt, never a ClientError or
\* a ServerError; a failed construction raised ValueError and no generate call
\* has an outcome on it.
C6_OutcomesDistinguishable ==
    /\ \A t \in Tasks :
         /\ IsDone(calls[t]) <=> calls[t].outcome.kind \in {"return", "raise"}
         /\ ~IsDone(calls[t]) => calls[t].outcome = Running
         /\ calls[t].outcome.kind = "return" =>
                LastAttempt(calls[t]).result = "ok"
         /\ calls[t].outcome.kind = "raise" =>
              /\ calls[t].outcome.class \notin RecognizedErrors
              /\ \/ /\ calls[t].outcome.class = "AllClientsFailed"
                    /\ \A i \in DOMAIN calls[t].attempts :
                           calls[t].attempts[i].result \in RecognizedErrors
                 \/ /\ calls[t].outcome.class \in OtherErrors
                    /\ calls[t].attempts # <<>>
                    /\ LastAttempt(calls[t]).result = calls[t].outcome.class
    /\ constructed = "failed" =>
         /\ init_exc = ConfigurationError
         /\ \A t \in Tasks : calls[t] = Idle
    /\ constructed # "failed" => init_exc = NoException

\* the recognized error of the last possible attempt, a Secondary one, was
\* absorbed into AllClientsFailed
C6_Witness ==
    \E t \in Tasks :
        /\ Exhausted(calls[t])
        /\ calls[t].attempts # <<>>
        /\ LastAttempt(calls[t]).slot = "secondary"
        /\ LastAttempt(calls[t]).result = "ClientError"

\* C7 (as claimed): within one call no (model identifier, client) pair is
\* attempted twice.
C7_NoModelClientPairTwice ==
    \A t \in Tasks : \A i, j \in DOMAIN calls[t].attempts :
        i < j => AttemptCells(calls[t])[i] # AttemptCells(calls[t])[j]

\* C7 (amended): every attempt is made for a roster position with a client,
\* no (roster position, client) pair is attempted twice, and in a call that
\* ended in exhaustion every (pair, client) cell was visited exactly once:
\* its Primary was attempted exactly once.
C7_NoCellTwice ==
    \A t \in Tasks :
        /\ \A i \in DOMAIN calls[t].attempts :
             /\ Pos(calls[t].attempts[i]) \in DOMAIN models
             /\ calls[t].attempts[i].model = models[Pos(calls[t].attempts[i])]
             /\ calls[t].attempts[i].client_idx \in DOMAIN clients
             /\ calls[t].attempts[i].api_key =
                    clients[calls[t].attempts[i].client_idx].api_key
        /\ \A i, j \in DOMAIN calls[t].attempts :
             i < j => <<Pos(calls[t].attempts[i]), calls[t].attempts[i].client_idx>>
                      # <<Pos(calls[t].attempts[j]), calls[t].attempts[j].client_idx>>
        /\ Exhausted(calls[t]) =>
             \A g \in 1..((Len(models) + 1) \div 2) : \A k \in DOMAIN clients :
                 Cardinality({i \in DOMAIN calls[t].attempts :
                                 /\ calls[t].attempts[i].group_idx = g
                                 /\ calls[t].attempts[i].slot = "primary"
                                 /\ calls[t].attempts[i].client_idx = k}) = 1

\* an exhausted call over several groups and clients whose roster names a
\* model twice, so that a (model, client) pair was attempted twice
C7_Witness ==
    \E t \in Tasks :
        /\ Exhausted(calls[t])
        /\ Len(models) >= 3 /\ Len(clients) = 2
        /\ \E i, j \in DOMAIN calls[t].attempts :
               i < j /\ AttemptCells(calls[t])[i] = AttemptCells(calls[t])[j]

\* C8: construction fails exactly when no credential was found; a failed
\* construction raised ValueError and left no client and no roster, a
\* successful one has one client per credential.
C8_ConstructionContract ==
    /\ constructed = "failed" =>
         /\ api_keys = <<>> /\ clients = <<>> /\ models = <<>>
         /\ init_exc = ConfigurationError
    /\ constructed = "ok" =>
         /\ api_keys # <<>>
         /\ Len(clients) = Len(api_keys)
         /\ \A i \in DOMAIN clients : clients[i].api_key = api_keys[i]
         /\ init_exc = NoException
    /\ constructed = "no" => clients = <<>> /\ models = <<>>

\* construction failed for want of credentials
C8_Witness == constructed = "failed" /\ init_exc.class = "ValueError" /\ api_keys = <<>>

\* C9: on an empty roster a generate call makes no transport call at all and
\* ends, at once, by raising AllClientsFailed.
C9_EmptyRosterRaisesAggregateFailure ==
    (constructed = "ok" /\ models = <<>>) =>
        \A t \in Tasks :
            /\ calls[t].attempts = <<>>
            /\ calls[t].pc \in {"idle", "done"}
            /\ IsDone(calls[t]) =>
                 /\ Exhausted(calls[t])
                 /\ calls[t].outcome.model_count = 0
                 /\ calls[t].outcome.client_count = Len(clients)

\* both forms have been called on an empty roster
C9_Witness ==
    /\ constructed = "ok" /\ models = <<>>
    /\ \E t \in Tasks : IsDone(calls[t]) /\ calls[t].form = "async"
    /\ \E t \in Tasks : IsDone(calls[t]) /\ calls[t].form = "sync"

SameOutcome(o1, o2) ==
    /\ o1.kind = o2.kind
    /\ o1.kind = "return" => o1.response = o2.response
    /\ o1.kind = "raise" =>
         /\ o1.class = o2.class
         /\ o1.class = "AllClientsFailed" =>
              /\ o1.client_count = o2.client_count
              /\ o1.model_count = o2.model_count

\* C10: against the same stub, a finished suspending call and a finished
\* blocking call with the same inputs have made the same attempts with the
\* same arguments and have the same outcome.
C10_BlockingEqualsSuspending ==
    stubbed =>
        \A t1, t2 \in Tasks :
            (/\ IsDone(calls[t1]) /\ calls[t1].form = "async"
             /\ IsDone(calls[t2]) /\ calls[t2].form = "sync"
             /\ calls[t1].contents = calls[t2].contents
             /\ calls[t1].config = calls[t2].config)
            => /\ calls[t1].attempts = calls[t2].attempts
               /\ SameOutcome(calls[t1].outcome, calls[t2].outcome)

\* a suspending and a blocking call both finished after a Secondary attempt
\* and a change of client
C10_Witness ==
    /\ stubbed
    /\ \E t1, t2 \in Tasks :
         /\ IsDone(calls[t1]) /\ calls[t1].form = "async"
         /\ IsDone(calls[t2]) /\ calls[t2].form = "sync"
         /\ Len(calls[t2].attempts) >= 4
         /\ \E i \in DOMAIN calls[t2].attempts : calls[t2].attempts[i].slot = "secondary"

\* ---- a call run alone ----------------------------------------------------
\* a call from its entry, and one step of it on the result r of its
\* outstanding transport call
Enter(c) == IF c.form = "async" THEN generate_content_enter(c)
            ELSE generate_content_sync_enter(c)
StepOf(c, r) ==
    IF c.form = "async"
    THEN (IF c.pc = "primary" THEN primary_done(Completed(c, r), r)
          ELSE secondary_done(Completed(c, r), r))
    ELSE (IF c.pc = "primary" THEN primary_done_sync(Completed(c, r), r)
          ELSE secondary_done_sync(Completed(c, r), r))

\* the call c after n more of its transport calls were answered by the stub,
\* with no other call on the controller
RECURSIVE Alone(_, _)
Alone(c, n) ==
    IF n = 0 \/ c.pc = "done" \/ Cell(LastAttempt(c)) \notin DOMAIN stub THEN c
    ELSE Alone(StepOf(c, stub[Cell(LastAttempt(c))]), n - 1)

NCompleted(c) == Cardinality({i \in DOMAIN c.attempts : c.attempts[i].result # "pending"})

\* C11: a generate step leaves the credentials, the clients and the roster as
\* they are, and against a stub a call that finishes has made the attempts and
\* has the outcome of every call with the same inputs that finished before it.
C11_NoStateBetweenCalls ==
    [][/\ constructed = "ok" => UNCHANGED <<api_keys, clients, models>>
       /\ stubbed =>
            \A t, u \in Tasks :
                (/\ u # t
                 /\ ~IsDone(calls[t]) /\ IsDone(calls'[t])
                 /\ IsDone(calls[u])
                 /\ calls[u].contents = calls'[t].contents
                 /\ calls[u].config = calls'[t].config)
                => /\ calls'[t].attempts = calls[u].attempts
                   /\ SameOutcome(calls'[t].outcome, calls[u].outcome)]_vars

\* two finished calls of the same form that went through a Secondary attempt
\* and a change of client
C11_Witness ==
    /\ stubbed
    /\ \A t \in Tasks :
         /\ IsDone(calls[t]) /\ calls[t].form = "async"
         /\ Len(calls[t].attempts) >= 3
         /\ LastAttempt(calls[t]).client_idx = 2

\* C12: against a stub, whatever the interleaving, every call is where it
\* would be had it run alone up to the same number of answered transport
\* calls: same attempts, same results, same position, same outcome.
C12_ConcurrentCallsIndependent ==
    stubbed =>
        \A t \in Tasks :
            calls[t].pc # "idle" =>
                calls[t] = Alone(Enter(NewCall(calls[t].form, calls[t].contents,
                                               calls[t].config)),
                                 NCompleted(calls[t]))

\* two calls in progress at once, at different places of the traversal
C12_Witness ==
    /\ stubbed
    /\ \A t \in Tasks : calls[t].pc \in {"primary", "secondary"}
    /\ Len(calls["t1"].attempts) >= 3
    /\ Len(calls["t2"].attempts) = 2
    /\ calls["t1"].form # calls["t2"].form

\* C13: no call makes more than len(models) * len(clients) transport calls,
\* and a call whose transport calls all come back reaches its end.
C13_Terminates ==
    /\ [](\A t \in Tasks : Len(calls[t].attempts) <= Len(models) * Len(clients))
    /\ \A t \in Tasks : (calls[t].pc \in {"primary", "secondary"}) ~> IsDone(calls[t])

\* a call that ended after as many transport calls as the grid has cells
C13_Witness ==
    \E t \in Tasks :
        /\ IsDone(calls[t])
        /\ Len(models) = 3 /\ Len(clients) = 2
        /\ Len(calls[t].attempts) = Len(models) * Len(clients)

\* the groups of ms are consecutive pairs of it, the last one a single model
\* when ms has an odd length
IsPairing(groups, ms) ==
    /\ 2 * Len(groups) - 1 <= Len(ms) /\ Len(ms) <= 2 * Len(groups)
    /\ \A g \in DOMAIN groups :
         /\ Len(groups[g]) \in {1, 2}
         /\ groups[g][1] = ms[2 * g - 1]
         /\ Len(groups[g]) = 2 => groups[g][2] = ms[2 * g]
         /\ g < Len(groups) => Len(groups[g]) = 2
    /\ groups # <<>> => (Len(groups[Len(groups)]) = 2 <=> Len(ms) % 2 = 0)

\* C14: both forms partition the roster, in order, into ceil(N/2) groups of
\* consecutive identifiers; every group has a Primary and all but the last of
\* an odd roster a Secondary; the slots of an attempt are those of its group.
C14_RosterPairing ==
    /\ IsPairing(model_groups(models), models)
    /\ IsPairing(model_groups_sync(models), models)
    /\ \A g \in DOMAIN model_groups(models) :
         /\ primary_model(model_groups(models)[g]) = models[2 * g - 1]
         /\ secondary_model(model_groups(models)[g]) =
                (IF 2 * g <= Len(models) THEN models[2 * g] ELSE None)
         /\ primary_model_sync(model_groups_sync(models)[g]) = models[2 * g - 1]
         /\ secondary_model_sync(model_groups_sync(models)[g]) =
                (IF 2 * g <= Len(models) THEN models[2 * g] ELSE None)

\* a call on a roster of 3 models has reached the Primary of the second group,
\* which has no Secondary
C14_Witness ==
    /\ Len(models) = 3
    /\ \E t \in Tasks : /\ calls[t].pc = "primary" /\ calls[t].group_idx = 2
                        /\ LastAttempt(calls[t]).model = models[3]

\* ---- termination ---------------------------------------------------------
\* Every transport call comes back: the step that takes its result is taken.
Fairness ==
    \A t \in Tasks : /\ WF_vars(generate_content_resume(t))
                     /\ WF_vars(generate_content_sync_resume(t))
\* One caller against the transport that answers anything: every run of a
\* single call is a run of this caller.
InitOneCaller == Start /\ ~stubbed /\ probe = NoProbe
SpecFair == InitOneCaller /\ [][Next]_vars /\ Fairness

\* ---- error-message normalization ------------------------------------------
\* the string was put together as <digits> <blanks> <[A-Z_]+> . <blanks> <payload>
WellFormedHead(p) ==
    /\ p.code # <<>> /\ p.gap1 # <<>> /\ p.gap2 # <<>> /\ p.dot = <<Dot>>
    /\ p.status # <<>> /\ \A i \in DOMAIN p.status : p.status[i] \in Upper
\* '<code> <STATUS_TOKEN>. <message>'
Normalized(p, message) == p.code \o <<" ">> \o p.status \o <<".", " ">> \o message

\* C15 as stated: _format_error returns '<code> <STATUS_TOKEN>. <message>' when
\* the string has the form and its payload is a dictionary with an
\* error.message field, returns the string itself in every other case, and
\* never raises.
C15_FormatErrorAsStated ==
    (probe.fn = "_format_error" /\ probe.result # NotCalled) =>
        /\ probe.result.kind = "return"
        /\ probe.result.text =
             (IF WellFormedHead(probe) /\ probe.payload.shape = "message"
              THEN Normalized(probe, probe.payload.message)
              ELSE probe.s)

\* C15 amended: as stated, except that a dictionary 'error' entry without a
\* message field gives '<code> <STATUS_TOKEN>. Unknown error'.
C15_FormatError ==
    (probe.fn = "_format_error" /\ probe.result # NotCalled) =>
        /\ probe.result.kind = "return"
        /\ probe.result.text =
             (IF WellFormedHead(probe) /\ probe.payload.shape = "message"
              THEN Normalized(probe, probe.payload.message)
              ELSE IF WellFormedHead(probe) /\ probe.payload.shape = "no_message"
              THEN Normalized(probe, <<"Unknown error">>)
              ELSE probe.s)

\* _format_error has returned for a string of the form whose payload has a
\* dictionary 'error' entry without a message, and the blanks were more than one
C15_Witness ==
    /\ probe.fn = "_format_error" /\ probe.result # NotCalled
    /\ WellFormedHead(probe) /\ probe.payload.shape = "no_message"
    /\ Len(probe.gap1) = 2
    /\ probe.result.text # probe.s

\* ---- credential discovery --------------------------------------------------
\* the first occurrences of the values of ks, in the order of ks
RECURSIVE FirstOccurrences(_)
FirstOccurrences(ks) ==
    IF ks = <<>> THEN <<>>
    ELSE LET front == FirstOccurrences(SubSeq(ks, 1, Len(ks) - 1)) IN
         IF ks[Len(ks)] \in Range(front) THEN front ELSE Append(front, ks[Len(ks)])

\* C16: the controller holds one client per credential, the credential list
\* has no duplicates, and the clients are in the order in which the
\* credentials were found: GEMINI_API_KEY, GEMINI_API_KEY_1, GEMINI_API_KEY_2, ...
C16_ClientsInDiscoveryOrder ==
    (probe.fn = "environ" /\ constructed = "ok") =>
        /\ Len(clients) = Len(api_keys)
        /\ \A i \in DOMAIN clients : clients[i].api_key = api_keys[i]
        /\ \A i, j \in DOMAIN api_keys : api_keys[i] = api_keys[j] => i = j
        /\ api_keys = FirstOccurrences(keys(probe.env))

\* C17: after get_gemini_api_keys every non-empty value of GEMINI_API_KEY and
\* of a GEMINI_API_KEY_<i> is in the list, whatever numbers are missing
\* before i.
C17_EveryKeyVariableReturned ==
    (probe.fn = "environ" /\ constructed # "no") =>
        /\ Truthy(probe.env.GEMINI_API_KEY) => probe.env.GEMINI_API_KEY \in Range(api_keys)
        /\ \A i \in DOMAIN probe.env.GEMINI_API_KEY_ :
             Truthy(probe.env.GEMINI_API_KEY_[i]) =>
                 probe.env.GEMINI_API_KEY_[i] \in Range(api_keys)

\* ---- Secondary attempts ------------------------------------------------------
\* the pair with index g, and whether it has a Secondary model
PairOf(g) == model_groups(models)[g]
HasSecondary(g) == Len(PairOf(g)) = 2

\* C18: an attempt is a Secondary attempt exactly when its pair has a Secondary
\* and the attempt before it is the Primary attempt of the same pair with the
\* same client and failed with a recognized error; a failed Primary of a pair
\* with a Secondary is followed by that Secondary attempt, and one of a pair
\* without a Secondary by the Primary attempt of the next client.
C18_SecondaryIffPrimaryFailed ==
    \A t \in Tasks :
        LET as == calls[t].attempts IN
        \A i \in DOMAIN as :
            /\ as[i].slot = "secondary" =>
                 /\ HasSecondary(as[i].group_idx)
                 /\ as[i].model = PairOf(as[i].group_idx)[2]
                 /\ i > 1
                 /\ as[i - 1].slot = "primary"
                 /\ as[i - 1].result \in RecognizedErrors
                 /\ as[i - 1].group_idx = as[i].group_idx
                 /\ as[i - 1].client_idx = as[i].client_idx
            /\ (as[i].slot = "primary" /\ as[i].result \in RecognizedErrors
                /\ HasSecondary(as[i].group_idx)) =>
                 /\ i < Len(as)
                 /\ as[i + 1].slot = "secondary"
                 /\ as[i + 1].client_idx = as[i].client_idx
            /\ (as[i].slot = "primary" /\ as[i].result \in RecognizedErrors
                /\ ~HasSecondary(as[i].group_idx) /\ i < Len(as)) =>
                 /\ as[i + 1].slot = "primary"
                 /\ as[i + 1].client_idx # as[i].client_idx \/ as[i + 1].group_idx # as[i].group_idx

\* ---- transport calls outstanding -----------------------------------------------
\* the attempts of c whose transport call has neither returned nor raised
Outstanding(c) == {i \in DOMAIN c.attempts : c.attempts[i].result = "pending"}

\* C20: a call has at most one transport call outstanding, its latest, and has
\* one exactly while it is suspended (or blocked) in it; a step that starts an
\* attempt leaves no earlier attempt of the call outstanding.
C20_OneTransportCallAtATime ==
    \A t \in Tasks :
        /\ Cardinality(Outstanding(calls[t])) <= 1
        /\ Outstanding(calls[t]) \subseteq {Len(calls[t].attempts)}
        /\ Outstanding(calls[t]) # {} <=> calls[t].pc \in {"primary", "secondary"}

\* a suspended call and a blocked call, each in a transport call after five
\* that came back
C20_Witness ==
    /\ calls["t1"].form = "async" /\ calls["t2"].form = "sync"
    /\ \A t \in Tasks : /\ Len(calls[t].attempts) = 6
                        /\ Outstanding(calls[t]) = {6}

\* ---- the traversal sees the class of an outcome only ---------------------------
\* the results the transport calls of c came back with, each recognized error
\* replaced by a ClientError (whose message is extracted without failure)
ClassOnly(c) ==
    [i \in 1..NCompleted(c) |->
        IF c.attempts[i].result \in RecognizedErrors THEN "ClientError"
        ELSE c.attempts[i].result]
\* the call c run on with the results rs
RECURSIVE Rerun(_, _)
Rerun(c, rs) ==
    IF rs = <<>> \/ c.pc = "done" THEN c
    ELSE Rerun(StepOf(c, Head(rs)), Tail(rs))
\* the attempt a without its result
Target(a) == [model |-> a.model, api_key |-> a.api_key, group_idx |-> a.group_idx,
              client_idx |-> a.client_idx, slot |-> a.slot,
              contents |-> a.contents, config |-> a.config]

\* C19: a call and the run of the same call in which every recognized error is
\* a ClientError with a well-formed message make the same attempts, stand at
\* the same place, and end in the same kind of outcome.
C19_TraversalSeesClassOnly ==
    \A t \in Tasks :
        calls[t].pc # "idle" =>
            LET twin == Rerun(Enter(NewCall(calls[t].form, calls[t].contents,
                                            calls[t].config)),
                              ClassOnly(calls[t]))
            IN /\ Len(twin.attempts) = Len(calls[t].attempts)
               /\ \A i \in DOMAIN twin.attempts :
                      Target(twin.attempts[i]) = Target(calls[t].attempts[i])
               /\ twin.pc = calls[t].pc
               /\ SameOutcome(twin.outcome, calls[t].outcome)

\* a call that ended in exhaustion after a ServerError, whose message the
\* normalization fails to extract, and ClientErrors
C19_Witness ==
    \E t \in Tasks :
        /\ Exhausted(calls[t])
        /\ Len(calls[t].attempts) >= 4
        /\ calls[t].attempts[1].result = "ServerError"
        /\ calls[t].attempts[2].result = "ClientError"
        /\ format_error(error_str("ServerError")).text = error_str("ServerError")
        /\ format_error(error_str("ClientError")).text # error_str("ClientError")

====
